---- MODULE Spec2Model ----
(***************************************************************************)
(* Model of src/src/payload_processor.py: the PackerParser node that packs *)
(* application messages into acoustic-modem envelopes and parses received  *)
(* envelopes.  The program is Python 2 (str is a byte string), struct uses *)
(* the native layout ('BHd' is 16 bytes with alignment padding).           *)
(*                                                                         *)
(* A byte string is modelled by its structure:                             *)
(*   body     [len |-> byte length, vals |-> the values struct.unpack      *)
(*             yields for a format of that size]                           *)
(*   payload  [hlen |-> number of header bytes present (at most 16),       *)
(*             type_id, message_id, sent_at |-> the three header fields,   *)
(*             body |-> the bytes after the header]                        *)
(* Floating point values are integers; a float32 slot keeps 24 bits.       *)
(***************************************************************************)
EXTENDS Integers, Sequences, FiniteSets, TLC

VARIABLES
    msg_out_cnt,    \* self.msg_out_cnt
    msg_in_cnt,     \* self.msg_in_cnt
    pub_modem,      \* payloads published on self.pub_modem, in order
    pub_nav,        \* messages published on self.pub_nav
    pub_position,   \* messages published on self.pub_position
    pub_body,       \* messages published on self.pub_body
    pub_string,     \* messages published on self.pub_string
    pub_status,     \* NodeStatus records published on self.pub_status
    pub_incoming,   \* messages published on the publishers of self.pub_incoming
    call,           \* the last callback invocation: [op, arg, exc]
    now,            \* rospy.Time.now().to_sec()
    pc,             \* per callback thread: position inside send_message
    hdr,            \* per callback thread: the payload assembled at line 212
    tmp             \* per callback thread: the value loaded by line 215

vars == <<msg_out_cnt, msg_in_cnt, pub_modem, pub_nav, pub_position, pub_body,
          pub_string, pub_status, pub_incoming, call, now, pc, hdr, tmp>>

-----------------------------------------------------------------------------
(* Bounds of the model *)

\* published payloads kept in pub_modem
MaxSends == 2
\* received payloads counted, and messages kept in the consumers' topics
MaxRecv == 1

\* the clock readings the model draws from
Clock == 0..1

-----------------------------------------------------------------------------
(* Module constants of the program *)

_POSITION_REQUEST == "position_request"
_BODY_REQUEST == "body_request"
_NAV == "nav"
_STRING_IMAGE == "string_image"
_ACK == "ack"
_ROS_MESSAGE == "ros_message"
_ROS_SERVICE == "ros_service"

TOPICS ==
    [modem_incoming |-> "/modem/burst/out",
     modem_outgoing |-> "/modem/burst/out",
     body_incoming |-> "/modem/unpacker/body_req",
     body_outgoing |-> "/modem/packer/body_req",
     position_incoming |-> "/modem/unpacker/position_req",
     position_outgoing |-> "/modem/packer/position_req",
     nav_incoming |-> "/modem/unpacker/nav_sts/",
     nav_outgoing |-> "/modem/packer/nav_sts/",
     image_string_incoming |-> "/modem/unpacker/image",
     image_string_outgoing |-> "/modem/packer/image",
     node_status |-> "/modem/unpacker/status"]

REQUIRING_ACK == {_POSITION_REQUEST, _BODY_REQUEST}

TYPE_TO_ID_shared_id ==
    [position_request |-> 1, body_request |-> 2, nav |-> 5, string_image |-> 10,
     ack |-> 32, ros_message |-> 100, ros_service |-> 100]

TYPE_TO_ID ==
    [position_request |-> 1, body_request |-> 2, nav |-> 5, string_image |-> 10,
     ack |-> 32, ros_message |-> 100, ros_service |-> 101]

ID_TO_TYPE ==
    [i \in {TYPE_TO_ID[n] : n \in DOMAIN TYPE_TO_ID} |->
        CHOOSE n \in DOMAIN TYPE_TO_ID : TYPE_TO_ID[n] = i]

FORMAT ==
    [header |-> <<"B", "H", "d">>,
     multi_message_header |-> <<"H", "B", "B">>,
     position_request |-> <<"f", "f", "f", "f", "f", "f">>,
     body_request |-> <<"f", "f", "f", "f", "f", "f">>,
     nav |-> <<"d", "d", "f", "f", "f", "f", "f", "f">>,
     ack |-> <<"H">>]

MAX_MSG_LEN == 9000

USHRT_MAX == 65535

-----------------------------------------------------------------------------
(* struct: native sizes, alignment and value conversion *)

ItemSize == [B |-> 1, H |-> 2, f |-> 4, d |-> 8]

\* offset rounded up to a multiple of the item's size (native alignment)
AlignUp(off, a) == ((off + a - 1) \div a) * a

RECURSIVE SizeFrom(_, _, _)
SizeFrom(fmt, i, off) ==
    IF i > Len(fmt) THEN off
    ELSE SizeFrom(fmt, i + 1, AlignUp(off, ItemSize[fmt[i]]) + ItemSize[fmt[i]])

calcsize(fmt) == SizeFrom(fmt, 1, 0)

\* an integer-valued double stored in a float32 slot: 24 bits of mantissa,
\* round to nearest, ties to even (for |x| < 2^25)
F32(x) ==
    LET a == IF x < 0 THEN -x ELSE x
        q == a \div 2
        r == IF a <= 16777216 \/ a % 2 = 0 THEN a
             ELSE IF q % 2 = 0 THEN 2 * q ELSE 2 * q + 2
    IN  IF x < 0 THEN -r ELSE r

\* the value a format item stores for v
StoreItem(c, v) == IF c = "f" THEN F32(v) ELSE v

\* struct.pack accepts v in a slot of format item c
FitsItem(c, v) ==
    CASE c = "B" -> 0 <= v /\ v <= 255
      [] c = "H" -> 0 <= v /\ v <= USHRT_MAX
      [] OTHER -> TRUE

\* struct.pack(fmt, *values): struct.error unless one value per item, each in range
pack(fmt, values) ==
    IF Len(values) # Len(fmt) \/ \E i \in 1..Len(fmt) : ~FitsItem(fmt[i], values[i])
    THEN [exc |-> "struct.error", body |-> [len |-> 0, vals |-> <<>>]]
    ELSE [exc |-> "none",
          body |-> [len |-> calcsize(fmt),
                    vals |-> [i \in 1..Len(fmt) |-> StoreItem(fmt[i], values[i])]]]

unpack_any_length(fmt, body) == [exc |-> "none", values |-> body.vals]

\* struct.unpack(fmt, body): struct.error unless the byte count is the format's
unpack(fmt, body) ==
    IF body.len # calcsize(fmt)
    THEN [exc |-> "struct.error", values |-> <<>>]
    ELSE [exc |-> "none", values |-> body.vals]

header_length == calcsize(FORMAT.header)

\* len(msg.payload)
PayloadLen(p) == p.hlen + p.body.len

\* '{0}{1}'.format(header, payload_body) for a packed header
Envelope(type_id, message_id, sent_at, body) ==
    [hlen |-> header_length, type_id |-> type_id, message_id |-> message_id,
     sent_at |-> sent_at, body |-> body]

-----------------------------------------------------------------------------
(* The instance: the fields the operations read and write, and the outcome *)
(* (exc) of the operation applied to it                                    *)

Self ==
    [exc |-> "none", out_cnt |-> msg_out_cnt, in_cnt |-> msg_in_cnt,
     modem |-> pub_modem, nav |-> pub_nav, position |-> pub_position,
     body |-> pub_body, string |-> pub_string, status |-> pub_status,
     incoming |-> pub_incoming]

Raise(S, e) == [S EXCEPT !.exc = e]

-----------------------------------------------------------------------------
(* Outgoing pipeline *)

send_message_no_increment(S, payload_type, payload_body, t) ==
    IF payload_type \notin DOMAIN TYPE_TO_ID THEN Raise(S, "KeyError")
    ELSE LET h == pack(FORMAT.header, <<TYPE_TO_ID[payload_type], S.out_cnt, t>>)
         IN  IF h.exc # "none" THEN Raise(S, h.exc)
             ELSE [S EXCEPT !.modem = Append(@, Envelope(h.body.vals[1], h.body.vals[2],
                                                          h.body.vals[3], payload_body))]

send_message_increment_first(S, payload_type, payload_body, t) ==
    LET S1 == [S EXCEPT !.out_cnt = @ + 1]
    IN  IF payload_type \notin DOMAIN TYPE_TO_ID THEN Raise(S1, "KeyError")
        ELSE LET h == pack(FORMAT.header, <<TYPE_TO_ID[payload_type], S.out_cnt, t>>)
             IN  IF h.exc # "none" THEN Raise(S1, h.exc)
                 ELSE [S1 EXCEPT !.modem = Append(@, Envelope(h.body.vals[1], h.body.vals[2],
                                                               h.body.vals[3], payload_body))]

\* line 210 packs the header from TYPE_TO_ID[payload_type], self.msg_out_cnt and
\* the clock (KeyError / struct.error leave the instance untouched), line 212
\* concatenates, line 215 increments, line 222 publishes
send_message(S, payload_type, payload_body, t) ==
    IF payload_type \notin DOMAIN TYPE_TO_ID THEN Raise(S, "KeyError")
    ELSE LET h == pack(FORMAT.header, <<TYPE_TO_ID[payload_type], S.out_cnt, t>>)
         IN  IF h.exc # "none" THEN Raise(S, h.exc)
             ELSE [S EXCEPT !.out_cnt = @ + 1,
                            !.modem = Append(@, Envelope(h.body.vals[1], h.body.vals[2],
                                                         h.body.vals[3], payload_body))]

send_ack(S, msg_id, t) ==
    LET b == pack(FORMAT[_ACK], <<msg_id>>)
    IN  IF b.exc # "none" THEN Raise(S, b.exc)
        ELSE send_message(S, _ACK, b.body, t)

\* lines 187-190 pass position.north for the north, east and depth slots
handle_nav(S, ros_msg, t) ==
    LET b == pack(FORMAT[_NAV],
                  <<ros_msg.latitude, ros_msg.longitude,
                    ros_msg.north, ros_msg.north, ros_msg.north,
                    ros_msg.roll, ros_msg.pitch, ros_msg.yaw>>)
    IN  IF b.exc # "none" THEN Raise(S, b.exc)
        ELSE send_message(S, _NAV, b.body, t)

handle_body(S, ros_msg, t) ==
    LET b == pack(FORMAT[_BODY_REQUEST], ros_msg.position)
    IN  IF b.exc # "none" THEN Raise(S, b.exc)
        ELSE send_message(S, _BODY_REQUEST, b.body, t)

handle_position(S, ros_msg, t) ==
    LET b == pack(FORMAT[_POSITION_REQUEST], ros_msg.position)
    IN  IF b.exc # "none" THEN Raise(S, b.exc)
        ELSE send_message(S, _POSITION_REQUEST, b.body, t)

\* ros_msg.payload is a byte string of ros_msg.len bytes
handle_string(S, ros_msg, t) ==
    IF ros_msg.len < MAX_MSG_LEN
    THEN send_message(S, _STRING_IMAGE, [len |-> ros_msg.len, vals |-> <<>>], t)
    ELSE S

-----------------------------------------------------------------------------
(* Incoming pipeline *)

NavMsg(values) ==
    [latitude |-> values[1], longitude |-> values[2],
     north |-> values[3], east |-> values[4], depth |-> values[5],
     roll |-> values[6], pitch |-> values[7], yaw |-> values[8]]

parse_nav(S, payload_type, id, body) ==
    LET u == unpack(FORMAT[payload_type], body)
    IN  IF u.exc # "none" THEN Raise(S, u.exc)
        ELSE [S EXCEPT !.nav = Append(@, NavMsg(u.values))]

parse_position_req(S, payload_type, id, body) ==
    LET u == unpack(FORMAT[payload_type], body)
    IN  IF u.exc # "none" THEN Raise(S, u.exc)
        ELSE [S EXCEPT !.position = Append(@, [position |-> SubSeq(u.values, 1, 6)])]

parse_body_req(S, payload_type, id, body) ==
    LET u == unpack(FORMAT[payload_type], body)
    IN  IF u.exc # "none" THEN Raise(S, u.exc)
        ELSE [S EXCEPT !.body = Append(@, [position |-> SubSeq(u.values, 1, 6)])]

parse_string(S, payload_type, id, payload) ==
    [S EXCEPT !.string = Append(@, [image |-> payload])]

\* logs only
parse_ack(S, payload_type, id, body) == S

\* def parse_unknown(self) takes no argument; line 256 calls the handler with
\* three, which is a TypeError before its body runs
parse_unknown(S, payload_type, id, body) == Raise(S, "TypeError")

\* self.parse.get(payload_type, self.parse_unknown)(payload_type, msg_id, body)
parse(S, payload_type, id, body) ==
    CASE payload_type = "position_request" -> parse_position_req(S, payload_type, id, body)
      [] payload_type = "body_request" -> parse_body_req(S, payload_type, id, body)
      [] payload_type = "nav" -> parse_nav(S, payload_type, id, body)
      [] payload_type = "string_image" -> parse_string(S, payload_type, id, body)
      [] payload_type = "ack" -> parse_ack(S, payload_type, id, body)
      [] OTHER -> parse_unknown(S, payload_type, id, body)

\* line 253 iterates info.items, the bound method itself and not its result:
\* TypeError ('builtin_function_or_method' object is not iterable)
ns_info(info) == [exc |-> "TypeError", value |-> <<>>]

\* msg.payload[:self.header_length]
HeaderSlice(payload) ==
    [len |-> payload.hlen,
     vals |-> <<payload.type_id, payload.message_id, payload.sent_at>>]

handle_burst_msg_ack_on_receipt(S, msg, t) ==
    LET hv == unpack(FORMAT.header, HeaderSlice(msg.payload))
    IN  IF hv.exc # "none" THEN Raise(S, hv.exc)
        ELSE IF hv.values[1] \notin DOMAIN ID_TO_TYPE THEN Raise(S, "KeyError")
        ELSE
          LET A == send_ack(S, hv.values[2], t)
              S1 == [A EXCEPT !.in_cnt = @ + 1]
          IN  IF t - hv.values[3] = 0 THEN Raise(S1, "ZeroDivisionError")
              ELSE Raise(S1, "TypeError")

handle_burst_msg(S, msg, t) ==
    LET hv == unpack(FORMAT.header, HeaderSlice(msg.payload))
    IN  IF hv.exc # "none" THEN Raise(S, hv.exc)
        ELSE IF hv.values[1] \notin DOMAIN ID_TO_TYPE THEN Raise(S, "KeyError")
        ELSE
          LET payload_type == ID_TO_TYPE[hv.values[1]]
              msg_id == hv.values[2]
              time_sent == hv.values[3]
              time_received == t
              S1 == [S EXCEPT !.in_cnt = @ + 1]
          IN  IF time_received - time_sent = 0 THEN Raise(S1, "ZeroDivisionError")
              ELSE
                LET info == [time_sent |-> time_sent, time_received |-> time_received,
                             length |-> PayloadLen(msg.payload),
                             speed |-> <<PayloadLen(msg.payload), time_received - time_sent>>,
                             msg_in_cnt |-> S1.in_cnt]
                    kv == ns_info(info)
                IN  IF kv.exc # "none" THEN Raise(S1, kv.exc)
                    ELSE
                      LET S2 == [S1 EXCEPT !.status = Append(@, [message |-> msg.payload,
                                                                 info |-> kv.value])]
                          S3 == parse(S2, payload_type, msg_id, msg.payload.body)
                      IN  IF S3.exc # "none" THEN S3
                          ELSE IF payload_type \in REQUIRING_ACK
                               THEN send_ack(S3, msg_id, t)
                               ELSE S3

-----------------------------------------------------------------------------
(* Inputs *)

Nav(n, e, d) ==
    [latitude |-> 55, longitude |-> -3, north |-> n, east |-> e, depth |-> d,
     roll |-> 6, pitch |-> 7, yaw |-> 8]

\* NavSts messages given to handle_nav
NavInputs == {Nav(1, 1, 1), Nav(10, 20, 5)}

\* PilotRequest messages given to handle_position / handle_body: six axes, one
\* of them not a float32 value, and a request with five
PilotInputs == {[position |-> <<1, 2, 3, 0, 0, 16777217>>],
                [position |-> <<1, 2, 3, 0, 0>>]}

\* String messages given to handle_string, by payload length
StringInputs ==
    {[len |-> n] : n \in {0, MAX_MSG_LEN - header_length, MAX_MSG_LEN - 1,
                          MAX_MSG_LEN, MAX_MSG_LEN + 1}}

Blob(n) == [len |-> n, vals |-> <<>>]

\* a payload cut short inside its header
Truncated(n) ==
    [hlen |-> n, type_id |-> 0, message_id |-> 0, sent_at |-> 0, body |-> Blob(0)]

PoseBody == pack(FORMAT[_POSITION_REQUEST], <<1, 2, 3, 0, 0, 2>>).body
NavBody == pack(FORMAT[_NAV], <<55, -3, 10, 20, 5, 6, 7, 8>>).body
AckBody == pack(FORMAT[_ACK], <<42>>).body

\* payloads a peer puts on the modem topic
PeerPayloads ==
    {Truncated(n) : n \in {5, 11, header_length - 1}}
    \cup {Envelope(id, 42, 0, Blob(4)) : id \in {0, 7}}
    \cup {Envelope(TYPE_TO_ID[_POSITION_REQUEST], 42, 0, b) : b \in {PoseBody, Blob(20)}}
    \cup {Envelope(TYPE_TO_ID[_BODY_REQUEST], 42, 0, b) : b \in {PoseBody, NavBody}}
    \cup {Envelope(TYPE_TO_ID[_NAV], 42, 0, b) : b \in {NavBody, PoseBody}}
    \cup {Envelope(TYPE_TO_ID[_ACK], 42, 0, b) : b \in {AckBody, Blob(3)}}
    \cup {Envelope(TYPE_TO_ID[_STRING_IMAGE], 42, 1, Blob(4)),
          Envelope(TYPE_TO_ID[_ROS_MESSAGE], 42, 0, Blob(4)),
          Envelope(TYPE_TO_ID[_ROS_SERVICE], 42, 0, Blob(4))}

-----------------------------------------------------------------------------
(* The node: one action per callback, each the whole handler *)

Idle == [op |-> "none", arg |-> <<>>, exc |-> "none"]

\* the subscriptions whose callback runs send_message (lines 174-177)
Threads == {"sub_nav", "sub_position", "sub_body", "sub_string"}

\* the instance after __init__, and the instance after USHRT_MAX - 1 sends
StartCounts == {0, USHRT_MAX - 1}

Init ==
    /\ msg_out_cnt \in StartCounts
    /\ msg_in_cnt = 0
    /\ pub_modem = <<>>
    /\ pub_nav = <<>>
    /\ pub_position = <<>>
    /\ pub_body = <<>>
    /\ pub_string = <<>>
    /\ pub_status = <<>>
    /\ pub_incoming = <<>>
    /\ call = Idle
    /\ now = 0
    /\ pc = [th \in Threads |-> "idle"]
    /\ hdr = [th \in Threads |-> Truncated(0)]
    /\ tmp = [th \in Threads |-> 0]

\* the instance becomes R, the outcome of op(arg) at time t
Becomes(op, arg, R, t) ==
    /\ Len(R.modem) <= MaxSends
    /\ R.in_cnt <= MaxRecv
    /\ Len(R.nav) + Len(R.position) + Len(R.body) + Len(R.string) <= MaxRecv
    /\ msg_out_cnt' = R.out_cnt
    /\ msg_in_cnt' = R.in_cnt
    /\ pub_modem' = R.modem
    /\ pub_nav' = R.nav
    /\ pub_position' = R.position
    /\ pub_body' = R.body
    /\ pub_string' = R.string
    /\ pub_status' = R.status
    /\ pub_incoming' = R.incoming
    /\ call' = [op |-> op, arg |-> arg, exc |-> R.exc]
    /\ now' = t
    /\ UNCHANGED <<pc, hdr, tmp>>

HandleNav ==
    \E m \in NavInputs, t \in {c \in Clock : c >= now} :
        Becomes("handle_nav", m, handle_nav(Self, m, t), t)

HandleBody ==
    \E m \in PilotInputs, t \in {c \in Clock : c >= now} :
        Becomes("handle_body", m, handle_body(Self, m, t), t)

HandlePosition ==
    \E m \in PilotInputs, t \in {c \in Clock : c >= now} :
        Becomes("handle_position", m, handle_position(Self, m, t), t)

HandleString ==
    \E m \in StringInputs, t \in {c \in Clock : c >= now} :
        Becomes("handle_string", m, handle_string(Self, m, t), t)

\* send_message called with a type name, registered or not
SendMessage ==
    \E ty \in {_ROS_MESSAGE, "unregistered"}, t \in {c \in Clock : c >= now} :
        Becomes("send_message", [payload_type |-> ty, body |-> Blob(4)],
                send_message(Self, ty, Blob(4), t), t)

\* the topic self.pub_modem publishes on (line 157)
pub_modem_topic == TOPICS.modem_incoming

\* the topic self.sub_modem is subscribed to (line 172)
sub_modem_topic == TOPICS.modem_outgoing

\* what the transport hands to self.sub_modem's callback: the payloads of peers
\* and, the subscribed topic being the one self.pub_modem publishes on, the
\* payloads this node published; origin records whose payload it is
Deliveries ==
    {[payload |-> p, origin |-> "peer"] : p \in PeerPayloads}
    \cup (IF sub_modem_topic = pub_modem_topic
          THEN {[payload |-> pub_modem[i], origin |-> "self"] : i \in DOMAIN pub_modem}
          ELSE {})

HandleBurstMsg ==
    \E msg \in Deliveries, t \in {c \in Clock : c >= now} :
        Becomes("handle_burst_msg", msg, handle_burst_msg(Self, msg, t), t)

Next ==
    \/ HandleNav
    \/ HandleBody
    \/ HandlePosition
    \/ HandleString
    \/ SendMessage
    \/ HandleBurstMsg

Spec == Init /\ [][Next]_vars

-----------------------------------------------------------------------------
(* The codec alone: the encoders of the outgoing handlers and the decoders *)
(* of line 256 applied to what they produced                               *)

\* self.parse.get(payload_type, self.parse_unknown)(payload_type, msg_id, body)
\* for a payload this instance published
Parse ==
    \E i \in DOMAIN pub_modem :
        LET p == pub_modem[i]
        IN  Becomes("parse", [payload |-> p],
                    parse(Self, ID_TO_TYPE[p.type_id], p.message_id, p.body), now)

CodecNext ==
    \/ HandleNav
    \/ HandleBody
    \/ HandlePosition
    \/ HandleString
    \/ Parse

SpecCodec == Init /\ [][CodecNext]_vars

-----------------------------------------------------------------------------
(* Callback threads: rospy runs each subscription's callback on its own    *)
(* thread, so send_message runs concurrently; a thread may be preempted    *)
(* between line 210, the load and the store of line 215, and line 222      *)

\* the type and body of the payload the handler call with outcome R sent
SentBy(R) ==
    [payload_type |-> ID_TO_TYPE[R.modem[1].type_id], body |-> R.modem[1].body]

\* an instance that has published nothing
Fresh == [Self EXCEPT !.out_cnt = 0, !.modem = <<>>]

\* what each thread's handler passes to send_message, for one message each
ThreadSend ==
    [sub_nav |-> SentBy(handle_nav(Fresh, Nav(10, 20, 5), 0)),
     sub_position |->
        SentBy(handle_position(Fresh, [position |-> <<1, 2, 3, 0, 0, 16777217>>], 0)),
     sub_body |->
        SentBy(handle_body(Fresh, [position |-> <<1, 2, 3, 0, 0, 16777217>>], 0)),
     sub_string |-> SentBy(handle_string(Fresh, [len |-> 0], 0))]

InFlight == {th \in Threads : pc[th] # "idle"}

\* line 210 - 212: read self.msg_out_cnt, pack the header, build the payload
Line210(th) ==
    /\ pc[th] = "idle"
    /\ Len(pub_modem) + Cardinality(InFlight) < MaxSends
    /\ LET h == pack(FORMAT.header,
                     <<TYPE_TO_ID[ThreadSend[th].payload_type], msg_out_cnt, now>>)
       IN  /\ h.exc = "none"
           /\ hdr' = [hdr EXCEPT ![th] = Envelope(h.body.vals[1], h.body.vals[2],
                                                  h.body.vals[3], ThreadSend[th].body)]
    /\ pc' = [pc EXCEPT ![th] = "line215_load"]
    /\ UNCHANGED <<msg_out_cnt, msg_in_cnt, pub_modem, pub_nav, pub_position,
                   pub_body, pub_string, pub_status, pub_incoming, call,
                   now, tmp>>

\* line 215, self.msg_out_cnt += 1: load the attribute
Line215Load(th) ==
    /\ pc[th] = "line215_load"
    /\ tmp' = [tmp EXCEPT ![th] = msg_out_cnt]
    /\ pc' = [pc EXCEPT ![th] = "line215_store"]
    /\ UNCHANGED <<msg_out_cnt, msg_in_cnt, pub_modem, pub_nav, pub_position,
                   pub_body, pub_string, pub_status, pub_incoming, call,
                   now, hdr>>

\* line 215, self.msg_out_cnt += 1: store the sum
Line215Store(th) ==
    /\ pc[th] = "line215_store"
    /\ msg_out_cnt' = tmp[th] + 1
    /\ pc' = [pc EXCEPT ![th] = "line222"]
    /\ UNCHANGED <<msg_in_cnt, pub_modem, pub_nav, pub_position,
                   pub_body, pub_string, pub_status, pub_incoming, call,
                   now, hdr, tmp>>

\* line 222: self.pub_modem.publish(modem_msg)
Line222(th) ==
    /\ pc[th] = "line222"
    /\ pub_modem' = Append(pub_modem, hdr[th])
    /\ pc' = [pc EXCEPT ![th] = "idle"]
    /\ UNCHANGED <<msg_out_cnt, msg_in_cnt, pub_nav, pub_position,
                   pub_body, pub_string, pub_status, pub_incoming, call,
                   now, hdr, tmp>>

ConcNext ==
    \/ \E th \in Threads : Line210(th)
    \/ \E th \in Threads : Line215Load(th)
    \/ \E th \in Threads : Line215Store(th)
    \/ \E th \in Threads : Line222(th)

SpecConc == Init /\ [][ConcNext]_vars

-----------------------------------------------------------------------------
(* Vocabulary of the properties *)

OutgoingOps == {"handle_nav", "handle_body", "handle_position", "handle_string",
                "send_message"}

ConsumerTopics == <<pub_nav, pub_position, pub_body, pub_string>>

\* the step is a handle_burst_msg call on a payload with a whole header
ReceivesWholeHeader ==
    /\ call'.op = "handle_burst_msg"
    /\ call'.arg.payload.hlen = header_length

\* the step is a handle_burst_msg call on a payload of a registered type,
\* received after it was sent
ReceivesRegistered ==
    /\ ReceivesWholeHeader
    /\ call'.arg.payload.type_id \in DOMAIN ID_TO_TYPE
    /\ call'.arg.payload.sent_at < now'

\* the body of payload p has the length of p's type's format, if it has one
BodyLengthFits(p) ==
    ID_TO_TYPE[p.type_id] \in DOMAIN FORMAT =>
        p.body.len = calcsize(FORMAT[ID_TO_TYPE[p.type_id]])

\* the payloads the step published
PublishedByStep == SubSeq(pub_modem', Len(pub_modem) + 1, Len(pub_modem'))

IsAckFor(p, msg_id) ==
    /\ p.hlen = header_length
    /\ p.type_id = TYPE_TO_ID[_ACK]
    /\ p.body = pack(FORMAT[_ACK], <<msg_id>>).body

Last(q) == q[Len(q)]

-----------------------------------------------------------------------------
(* Properties *)

\* C1 (ack policy): a handle_burst_msg call on a well-formed payload whose type
\* is in requiring_ack dispatches the decoded message to its consumer and
\* publishes exactly one ack payload (type id 32) whose body is the received
\* message_id; a call on a payload of a registered type outside requiring_ack
\* publishes no ack.
C1_AckPolicy ==
    [][(ReceivesRegistered /\ BodyLengthFits(call'.arg.payload)) =>
          LET p == call'.arg.payload
          IN  IF ID_TO_TYPE[p.type_id] \in REQUIRING_ACK
              THEN /\ Len(PublishedByStep) = 1
                   /\ IsAckFor(PublishedByStep[1], p.message_id)
                   /\ Len(pub_position') + Len(pub_body')
                        = Len(pub_position) + Len(pub_body) + 1
              ELSE PublishedByStep = <<>>]_vars

\* C2 (monotonic ids): the payloads published by successive send_message calls
\* carry distinct message ids, each the previous one plus one modulo 2^16.
C2_MonotonicIds ==
    /\ \A i \in 1..(Len(pub_modem) - 1) :
          pub_modem[i + 1].message_id = (pub_modem[i].message_id + 1) % (USHRT_MAX + 1)
    /\ \A i, j \in DOMAIN pub_modem :
          i # j => pub_modem[i].message_id # pub_modem[j].message_id

C2_Witness ==
    /\ Len(pub_modem) >= 2
    /\ call.op \in OutgoingOps
    /\ call.exc = "none"
    /\ Last(pub_modem).message_id = msg_out_cnt - 1

\* C3 (atomic counter): under concurrent send_message calls no two published
\* payloads carry the same message id, and once every call has returned no id
\* between the first and the last one assigned is missing.
C3_AtomicCounter ==
    /\ \A i, j \in DOMAIN pub_modem :
          i # j => pub_modem[i].message_id # pub_modem[j].message_id
    /\ (InFlight = {} /\ pub_modem # <<>>) =>
          LET ids == {pub_modem[i].message_id : i \in DOMAIN pub_modem}
          IN  \A n \in ids : n + 1 \in ids \/ n + 1 = msg_out_cnt

\* C4 (unknown type): a handle_burst_msg call on a payload with a whole header
\* whose type id is not in ID_TO_TYPE does not raise, dispatches nothing,
\* publishes no ack and leaves both counters unchanged.
C4_UnknownTypeDiscarded ==
    [][(ReceivesWholeHeader /\ call'.arg.payload.type_id \notin DOMAIN ID_TO_TYPE) =>
          /\ call'.exc = "none"
          /\ UNCHANGED <<ConsumerTopics, pub_modem, msg_in_cnt, msg_out_cnt>>]_vars

\* C5 (header too short): a handle_burst_msg call on a payload shorter than the
\* header fails at the header's unpack (struct.error), dispatches nothing,
\* publishes no status record and no ack, and leaves both counters unchanged.
C5_HeaderTooShort ==
    [][(call'.op = "handle_burst_msg"
        /\ PayloadLen(call'.arg.payload) < header_length) =>
          /\ call'.exc = "struct.error"
          /\ UNCHANGED <<ConsumerTopics, pub_status, pub_modem,
                         msg_in_cnt, msg_out_cnt>>]_vars

C5_Witness ==
    /\ call.op = "handle_burst_msg"
    /\ PayloadLen(call.arg.payload) = 5
    /\ call.exc = "struct.error"
    /\ msg_in_cnt = 1
    /\ pub_modem # <<>>

FixedLayoutTypes == {_POSITION_REQUEST, _BODY_REQUEST, _NAV, _ACK}

\* C6 (body length mismatch): a handle_burst_msg call on a payload of a
\* fixed-layout type whose body length is not the type's (24, 24, 40, 2),
\* received after it was sent, does not raise, dispatches nothing and publishes
\* no ack.
C6_BodyLengthMismatchDropped ==
    [][(/\ ReceivesRegistered
        /\ ID_TO_TYPE[call'.arg.payload.type_id] \in FixedLayoutTypes
        /\ call'.arg.payload.body.len
             # calcsize(FORMAT[ID_TO_TYPE[call'.arg.payload.type_id]])) =>
          /\ call'.exc = "none"
          /\ UNCHANGED <<ConsumerTopics, pub_modem>>]_vars

\* C7 (counter frame of the outgoing pipeline): an outgoing call that publishes
\* a payload publishes one and adds one to msg_out_cnt; a call that fails, and
\* handle_string on a payload it rejects, leaves msg_out_cnt unchanged and
\* publishes nothing.
C7_CounterOncePerSend ==
    [][(call'.op \in OutgoingOps) =>
          /\ pub_modem' # pub_modem =>
                /\ Len(PublishedByStep) = 1
                /\ pub_modem' = Append(pub_modem, PublishedByStep[1])
                /\ msg_out_cnt' = msg_out_cnt + 1
                /\ call'.exc = "none"
          /\ call'.exc # "none" =>
                /\ msg_out_cnt' = msg_out_cnt
                /\ pub_modem' = pub_modem
          /\ (call'.op = "handle_string" /\ call'.arg.len >= MAX_MSG_LEN) =>
                /\ msg_out_cnt' = msg_out_cnt
                /\ pub_modem' = pub_modem]_vars

\* a header that cannot be packed, after two sends that could
C7_Witness ==
    /\ call.op \in OutgoingOps
    /\ call.exc = "struct.error"
    /\ msg_out_cnt = USHRT_MAX + 1
    /\ Len(pub_modem) = 2

\* C8 (wraparound): when msg_out_cnt has reached 65536 or more, a send_message
\* call with a registered type still succeeds and publishes a payload whose
\* message id is the counter modulo 2^16.
C8_WrapNotFatal ==
    [][(/\ call'.op = "send_message"
        /\ call'.arg.payload_type \in DOMAIN TYPE_TO_ID
        /\ msg_out_cnt > USHRT_MAX) =>
          /\ call'.exc = "none"
          /\ Len(PublishedByStep) = 1
          /\ PublishedByStep[1].message_id = msg_out_cnt % (USHRT_MAX + 1)]_vars

\* C9 (maximum length): every published payload is at most MAX_MSG_LEN bytes
\* long, header included, and no string payload of MAX_MSG_LEN bytes or more is
\* published.
C9_MaxEnvelopeLength ==
    \A i \in DOMAIN pub_modem :
        /\ PayloadLen(pub_modem[i]) <= MAX_MSG_LEN
        /\ pub_modem[i].type_id = TYPE_TO_ID[_STRING_IMAGE] =>
              pub_modem[i].body.len < MAX_MSG_LEN

\* the body handle_nav sends for a NavSts message
NavBodyOf(m) ==
    Last(handle_nav([Self EXCEPT !.out_cnt = 0, !.modem = <<>>], m, 0).modem).body

\* C10 (nav round trip): the message parse_nav publishes from the body
\* handle_nav produced for a NavSts message carries that message's eight fields,
\* each in its own slot.
C10_NavRoundTrip ==
    \A m \in NavInputs :
        (/\ call.op = "parse"
         /\ call.exc = "none"
         /\ call.arg.payload.type_id = TYPE_TO_ID[_NAV]
         /\ call.arg.payload.body = NavBodyOf(m)) =>
            Last(pub_nav) = m

-----------------------------------------------------------------------------
(* Properties of the incoming pipeline and of the configuration *)

\* the type name of a payload with a registered type id
TypeOf(p) == ID_TO_TYPE[p.type_id]

\* C11 (clock skew): a handle_burst_msg call on a well-formed payload of a
\* registered type whose sent_at is not before the receive time does not fail:
\* msg_in_cnt grows by one, one status record is published, and a payload whose
\* type is in requiring_ack is acked.
C11_SkewNotFatal ==
    [][(/\ ReceivesWholeHeader
        /\ call'.arg.payload.type_id \in DOMAIN ID_TO_TYPE
        /\ BodyLengthFits(call'.arg.payload)
        /\ call'.arg.payload.sent_at >= now') =>
          /\ call'.exc = "none"
          /\ msg_in_cnt' = msg_in_cnt + 1
          /\ Len(pub_status') = Len(pub_status) + 1
          /\ TypeOf(call'.arg.payload) \in REQUIRING_ACK =>
                /\ Len(PublishedByStep) = 1
                /\ IsAckFor(PublishedByStep[1], call'.arg.payload.message_id)]_vars

GeneralTypes == {_ROS_MESSAGE, _ROS_SERVICE}

\* C12 (general types): a handle_burst_msg call on a payload of a general type
\* (ros_message, ros_service), received after it was sent, completes without
\* error and forwards the body unchanged, once, to the general consumer, and to
\* no consumer of a fixed type.
C12_GeneralForwarded ==
    [][(ReceivesRegistered /\ TypeOf(call'.arg.payload) \in GeneralTypes) =>
          /\ call'.exc = "none"
          /\ pub_incoming' = Append(pub_incoming, call'.arg.payload.body)
          /\ UNCHANGED ConsumerTopics]_vars

\* C13 (registry bijection): TYPE_TO_ID and ID_TO_TYPE are inverse to each
\* other, no two names share an id, every id is in 1..255, and the type id a
\* send_message call put in its header resolves back to the name it was given.
\* (No statement of the program assigns to either table: they are constants of
\* the model.)
C13_RegistryBijection ==
    /\ \A n \in DOMAIN TYPE_TO_ID :
          /\ TYPE_TO_ID[n] \in 1..255
          /\ TYPE_TO_ID[n] \in DOMAIN ID_TO_TYPE
          /\ ID_TO_TYPE[TYPE_TO_ID[n]] = n
    /\ \A i \in DOMAIN ID_TO_TYPE : TYPE_TO_ID[ID_TO_TYPE[i]] = i
    /\ \A n, m \in DOMAIN TYPE_TO_ID : n # m => TYPE_TO_ID[n] # TYPE_TO_ID[m]
    /\ (call.op = "send_message" /\ call.exc = "none") =>
          TypeOf(Last(pub_modem)) = call.arg.payload_type

C13_Witness ==
    /\ call.op = "send_message"
    /\ call.exc = "none"
    /\ Last(pub_modem).type_id = TYPE_TO_ID[_ROS_MESSAGE]
    /\ msg_in_cnt = 1

ConsumerTypes == {_POSITION_REQUEST, _BODY_REQUEST, _NAV, _STRING_IMAGE}

\* C14 (dispatch): a handle_burst_msg call on a well-formed payload of a fixed
\* type, received after it was sent, completes and delivers the decoded message
\* once, to that type's consumer and to no other, with the values of the body.
C14_WellFormedDispatched ==
    [][(/\ ReceivesRegistered
        /\ TypeOf(call'.arg.payload) \in ConsumerTypes
        /\ BodyLengthFits(call'.arg.payload)) =>
          LET p == call'.arg.payload
              ty == TypeOf(p)
          IN  /\ call'.exc = "none"
              /\ pub_position' = IF ty = _POSITION_REQUEST
                                 THEN Append(pub_position, [position |-> p.body.vals])
                                 ELSE pub_position
              /\ pub_body' = IF ty = _BODY_REQUEST
                             THEN Append(pub_body, [position |-> p.body.vals])
                             ELSE pub_body
              /\ pub_nav' = IF ty = _NAV
                            THEN Append(pub_nav, NavMsg(p.body.vals))
                            ELSE pub_nav
              /\ pub_string' = IF ty = _STRING_IMAGE
                               THEN Append(pub_string, [image |-> p.body])
                               ELSE pub_string]_vars

\* C15 (receive count): msg_in_cnt is the number of status records published,
\* and the last status record carries that count.
C15_CountMatchesStatus ==
    /\ msg_in_cnt = Len(pub_status)
    /\ pub_status # <<>> => Last(pub_status).info.msg_in_cnt = msg_in_cnt

\* the call c was a handle_burst_msg call on a payload that is to be dropped:
\* header too short, unknown type id, or body of the wrong length
DroppedCall(c) ==
    /\ c.op = "handle_burst_msg"
    /\ \/ c.arg.payload.hlen < header_length
       \/ c.arg.payload.type_id \notin DOMAIN ID_TO_TYPE
       \/ ~BodyLengthFits(c.arg.payload)

\* C16 (failure isolation): the handle_burst_msg call that follows a dropped
\* payload, on a well-formed payload of a fixed type received after it was
\* sent, completes, dispatches to a consumer and acks the payload if and only
\* if its type is in requiring_ack.
C16_NextAfterDropProcessed ==
    [][(/\ DroppedCall(call)
        /\ ReceivesRegistered
        /\ TypeOf(call'.arg.payload) \in ConsumerTypes
        /\ BodyLengthFits(call'.arg.payload)) =>
          LET p == call'.arg.payload
          IN  /\ call'.exc = "none"
              /\ ConsumerTopics' # ConsumerTopics
              /\ IF TypeOf(p) \in REQUIRING_ACK
                 THEN /\ Len(PublishedByStep) = 1
                      /\ IsAckFor(PublishedByStep[1], p.message_id)
                 ELSE PublishedByStep = <<>>]_vars

\* C17 (no ack cascade): a handle_burst_msg call publishes at most one payload,
\* and a call on an ack payload publishes none and leaves msg_out_cnt unchanged.
C17_AckNotAcked ==
    [][(call'.op = "handle_burst_msg") =>
          /\ Len(PublishedByStep) <= 1
          /\ pub_modem' = pub_modem \o PublishedByStep
          /\ (/\ call'.arg.payload.hlen = header_length
              /\ call'.arg.payload.type_id = TYPE_TO_ID[_ACK]) =>
                /\ pub_modem' = pub_modem
                /\ msg_out_cnt' = msg_out_cnt]_vars

\* an ack of a peer received after this node has sent
C17_Witness ==
    /\ call.op = "handle_burst_msg"
    /\ call.arg.payload.hlen = header_length
    /\ call.arg.payload.type_id = TYPE_TO_ID[_ACK]
    /\ call.arg.payload.body = AckBody
    /\ call.arg.payload.sent_at < now
    /\ msg_in_cnt = 1
    /\ pub_modem # <<>>

\* C18 (no self-reception): the topic send_message publishes on not being the
\* topic handle_burst_msg is subscribed to, no payload this node published is
\* delivered to its own handle_burst_msg.
C18_NoSelfReception ==
    call.op = "handle_burst_msg" => call.arg.origin # "self"

\* C19 (counter frames): an outgoing call leaves msg_in_cnt unchanged; a
\* handle_burst_msg call on a well-formed payload received after it was sent
\* adds one to msg_out_cnt when the type is in requiring_ack, publishing an
\* ack whose header id is the old msg_out_cnt and whose body is the received
\* id, and any other handle_burst_msg call leaves msg_out_cnt unchanged.
C19_CounterFrames ==
    [][/\ call'.op \in OutgoingOps => msg_in_cnt' = msg_in_cnt
       /\ call'.op = "handle_burst_msg" =>
             IF /\ call'.arg.payload.hlen = header_length
                /\ call'.arg.payload.type_id \in DOMAIN ID_TO_TYPE
                /\ call'.arg.payload.sent_at < now'
                /\ BodyLengthFits(call'.arg.payload)
                /\ TypeOf(call'.arg.payload) \in REQUIRING_ACK
                /\ msg_out_cnt <= USHRT_MAX
             THEN /\ msg_out_cnt' = msg_out_cnt + 1
                  /\ Len(PublishedByStep) = 1
                  /\ PublishedByStep[1].message_id = msg_out_cnt
                  /\ IsAckFor(PublishedByStep[1], call'.arg.payload.message_id)
             ELSE msg_out_cnt' = msg_out_cnt]_vars

====
